---- MODULE Spec2Model ----
(***************************************************************************)
(* Model of the tweet deletion schedulers of dinas-afk/deletweet:          *)
(*   - the web server (src/unnamed/part_000): its module state, its HTTP   *)
(*     handlers and the background processDeletion run;                    *)
(*   - the TweetDeleter class (src/index.js): constructor, sleep,          *)
(*     deleteTweet, deleteTweetsInBatches, saveDeletionLog.                *)
(*   - the browser page (src/unnamed/part_001): its tweet list, its        *)
(*     selection, deleteSelected and pollDeletionProgress.                 *)
(* JavaScript runs a handler to completion between two awaits, so every    *)
(* action below is one such synchronous segment.                           *)
(***************************************************************************)
EXTENDS Integers, Sequences, FiniteSets, TLC

\* ---------------------------------------------------------------- bounds
MaxN == 2            \* longest list of tweet ids submitted
MaxB == 2            \* largest TWEETS_PER_BATCH in the environment
MaxBatchDelay == 1   \* largest BATCH_DELAY_MINUTES in the environment
MaxThrottles == 1    \* 429 responses the remote gives in all
MaxRuns == 2         \* runs accepted by the web server
MaxItems == 2        \* tweet ids submitted over all accepted runs
MaxPendingInit == 1  \* initialize requests awaiting validateCredentials
MaxPolls == 1        \* poll loops of the page running at once

\* ------------------------------------------------------ program constants
DefaultTweetsPerBatch == 5
DefaultBatchDelayMinutes == 90
WebBufferMinutes == 1
WebFallbackMinutes == 15
CliBufferMinutes == 5
CliFallbackMinutes == 1440
MsPerMinute == 60000
MsPerSecond == 1000

\* ------------------------------------------------------------ input sets
\* the submitted lists: <<MaxN>>, <<MaxN, MaxN - 1>>, ... (ids differ from positions)
IdList(n) == [k \in 1..n |-> MaxN + 1 - k]
IdLists == {IdList(n) : n \in 1..MaxN}
NoReset == 0                         \* error.rateLimit?.reset is undefined (falsy)
ResetSamples == {880, 1001, 1600}    \* rateLimit.reset, epoch seconds
NowSamples == {1000000}              \* new Date(), epoch milliseconds
CliResetSamples == {400, 880, 1600}  \* rateLimit.reset seen by the CLI
\* req.body.tweetIds: undefined, not an array, or an array of ids
Bodies ==
  {[kind |-> "missing", ids |-> <<>>], [kind |-> "notArray", ids |-> <<>>],
   [kind |-> "array", ids |-> <<>>]}
    \cup {[kind |-> "array", ids |-> l] : l \in IdLists}
RemoteResults == {"ok", "error", "429"}   \* what client.v2.deleteTweet does

VARIABLES
  env,                 \* process.env: TWEETS_PER_BATCH, BATCH_DELAY_MINUTES
  deleter,             \* part_000:13  (isNull, or a TweetDeleter object)
  deletionInProgress,  \* part_000:14
  deletionStats,       \* part_000:15
  procs,               \* the processDeletion executions (live ones, and the last finished)
  savedLog,            \* contents of deleted_tweets.json
  response,            \* the HTTP response the last step sent ("none": it sent none)
  initPending,         \* initialize requests suspended in validateCredentials
  runsStarted,         \* runs accepted so far
  itemsSubmitted,      \* tweet ids accepted so far
  throttled,           \* 429 responses given so far
  cli,                 \* the state of one deleteTweetsInBatches call (CLI)
  client               \* the browser page: part_001:1-2, its delete button, its poll loops

vars == <<env, deleter, deletionInProgress, deletionStats, procs, savedLog,
          response, initPending, runsStarted, itemsSubmitted, throttled, cli,
          client>>

\* ------------------------------------------------------------ pure helpers
Max(a, b) == IF a >= b THEN a ELSE b
Min(a, b) == IF a <= b THEN a ELSE b

\* Math.ceil(a / b) for an integer a and a positive integer b
Ceil(a, b) == -((-a) \div b)

\* parseInt(v) || dflt : 0 and NaN (here 0) are falsy
ParseIntOr(v, dflt) == IF v = 0 THEN dflt ELSE v

\* Array.prototype.slice(start, end) on a 0-based array held as a 1-based sequence
Slice(s, start, end) ==
  LET len == Len(s)
      from == IF start < 0 THEN Max(len + start, 0) ELSE Min(start, len)
      to == IF end < 0 THEN Max(len + end, 0) ELSE Min(end, len)
  IN  IF from >= to THEN <<>> ELSE SubSeq(s, from + 1, to)

\* number of one-minute timers TweetDeleter.sleep(minutes) awaits
SleepIterations(minutes) == Max(minutes, 0)

\* Math.ceil((new Date(reset * 1000) - new Date()) / (1000 * 60))
MinutesUntilResetFloor(reset, nowMs) ==
  (reset * MsPerSecond - nowMs) \div MsPerMinute
MinutesUntilReset(reset, nowMs) == Ceil(reset * MsPerSecond - nowMs, MsPerMinute)

\* minutes handed to sleep() on a 429, for a buffer and a fallback
ThrottleWait(reset, nowMs, buffer, fallback) ==
  IF reset # NoReset
    THEN MinutesUntilReset(reset, nowMs) + buffer
    ELSE fallback

\* new TweetDeleter()
NullDeleter ==
  [isNull |-> TRUE, tweetsPerBatch |-> 0, batchDelayMinutes |-> 0, deletedTweets |-> <<>>]
NewTweetDeleter(e) ==
  [isNull |-> FALSE,
   tweetsPerBatch |-> ParseIntOr(e.TWEETS_PER_BATCH, DefaultTweetsPerBatch),
   batchDelayMinutes |-> ParseIntOr(e.BATCH_DELAY_MINUTES, DefaultBatchDelayMinutes),
   deletedTweets |-> <<>>]

\* TweetDeleter.deleteTweet: a 429 is re-thrown, any other error is a result
deleteTweet(remote) ==
  [thrown |-> remote = "429", success |-> remote = "ok"]

\* deletionStats after one settled deleteTweet call r (part_000:116-126, 132):
\* a thrown 429 counts as nothing
\* RecordOutcome counting a failure in both counters
RecordOutcomeBoth(stats, r) ==
  IF r.thrown THEN stats
  ELSE IF r.success THEN [stats EXCEPT !.deleted = @ + 1]
  ELSE [stats EXCEPT !.failed = @ + 1, !.deleted = @ + 1]
RecordOutcomeCounting429(stats, r) ==
  IF r.success THEN [stats EXCEPT !.deleted = @ + 1]
  ELSE [stats EXCEPT !.failed = @ + 1]
RecordOutcome(stats, r) ==
  IF r.thrown THEN stats
  ELSE IF r.success THEN [stats EXCEPT !.deleted = @ + 1]
  ELSE [stats EXCEPT !.failed = @ + 1]

\* deleter.deletedTweets after one settled call for id (part_000:116-122)
PushDeletedAlways(log, r, id) ==
  IF ~r.thrown THEN Append(log, id) ELSE log
PushDeleted(log, r, id) ==
  IF ~r.thrown /\ r.success THEN Append(log, id) ELSE log

\* ------------------------------------------------- processDeletion, web
NoWait == [set |-> FALSE, reset |-> 0, nowMs |-> 0, ticks |-> 0]

\* the frame of processDeletion(tweetIds) at its entry; calls, chunks,
\* batchDelays, throttles, lastWait, carried, bstart and flush are history
\* fields recording what the run did
NewProc(tweetIds, d) ==
  [pc |-> "for", tweets |-> tweetIds, i |-> 0, batch |-> <<>>, k |-> 0,
   left |-> 0, after |-> "-", json |-> <<>>,
   bstart |-> 0, calls |-> <<>>, chunks |-> <<>>, batchDelays |-> 0,
   lastWait |-> NoWait, carried |-> d.deletedTweets,
   flush |-> "none"]

\* await deleter.sleep(minutes): suspended when a timer is awaited, else on
StartSleep(p, minutes, after) ==
  IF SleepIterations(minutes) > 0
    THEN [p EXCEPT !.pc = "sleep", !.left = SleepIterations(minutes), !.after = after]
    ELSE [p EXCEPT !.pc = after]

\* processDeletion from label p.pc to its next await, reading the deleter d
RECURSIVE Continue(_, _)
Continue(p, d) ==
  CASE p.pc = "for" ->          \* part_000:107-108
         IF p.i < Len(p.tweets)
           THEN LET b == Slice(p.tweets, p.i, p.i + d.tweetsPerBatch)
                IN  Continue([p EXCEPT !.pc = "forOf", !.batch = b, !.k = 1,
                                       !.bstart = p.i,
                                       !.chunks = Append(@, [start |-> p.i, size |-> Len(b)])], d)
           ELSE [p EXCEPT !.pc = "writeFile", !.json = d.deletedTweets]   \* :158
    [] p.pc = "forOf" ->        \* part_000:110-113
         IF p.k <= Len(p.batch)
           THEN [p EXCEPT !.pc = "deleteTweet",
                          !.calls = Append(@, [idx |-> p.bstart + p.k - 1,
                                               id |-> p.batch[p.k],
                                               result |-> "pending", cur |-> TRUE])]
           ELSE Continue([p EXCEPT !.pc = "afterBatch"], d)
    [] p.pc = "retry" ->        \* part_000:142-143: i--; continue
         Continue([p EXCEPT !.i = @ - 1, !.k = @ + 1, !.pc = "forOf"], d)
    [] p.pc = "afterBatch" ->   \* part_000:152-154
         IF p.i + d.tweetsPerBatch < Len(p.tweets)
           THEN LET q == StartSleep([p EXCEPT !.batchDelays = @ + 1],
                                    d.batchDelayMinutes, "incr")
                IN  IF q.pc = "sleep" THEN q ELSE Continue(q, d)
           ELSE Continue([p EXCEPT !.pc = "incr"], d)
    [] p.pc = "incr" ->         \* part_000:107: i += deleter.tweetsPerBatch
         Continue([p EXCEPT !.i = @ + d.tweetsPerBatch, !.pc = "for"], d)
    [] OTHER -> p

Live(ps) == SelectSeq(ps, LAMBDA p : p.pc # "done")

\* history: the last call settled with r, against the deleter now in use
SetLastResult(calls, r) ==
  [calls EXCEPT ![Len(calls)].result = r, ![Len(calls)].cur = TRUE]

\* ------------------------------------------------------------------ Init
WebIdle ==
  /\ deleter = NullDeleter
  /\ deletionInProgress = FALSE
  /\ deletionStats = [deleted |-> 0, failed |-> 0, total |-> 0]
  /\ procs = <<>>
  /\ savedLog = <<>>
  /\ response = "none"
  /\ initPending = 0
  /\ runsStarted = 0
  /\ itemsSubmitted = 0

\* ------------------------------------------ deleteTweetsInBatches, CLI
\* the frame of deleter.deleteTweetsInBatches(tweets) with the deleter's
\* fields it uses; calls, chunks, batchDelays, lastWait and bstart are
\* history fields
CliFrame(pc, tweets, d) ==
  [pc |-> pc, tweets |-> tweets, i |-> 0, j |-> 0, batch |-> <<>>,
   deletedCount |-> 0, failedCount |-> 0,
   tweetsPerBatch |-> d.tweetsPerBatch, batchDelayMinutes |-> d.batchDelayMinutes,
   deletedTweets |-> d.deletedTweets,
   left |-> 0, after |-> "-", result |-> [deleted |-> 0, failed |-> 0],
   bstart |-> 0, calls |-> <<>>, chunks |-> <<>>, batchDelays |-> 0,
   lastWait |-> NoWait]

\* deleteTweetsInBatches from label c.pc to its next await or its return
RECURSIVE CliContinue(_)
CliContinue(c) ==
  CASE c.pc = "for" ->          \* index.js:119-120
         IF c.i < Len(c.tweets)
           THEN LET b == Slice(c.tweets, c.i, c.i + c.tweetsPerBatch)
                IN  CliContinue([c EXCEPT !.pc = "forJ", !.batch = b, !.j = 0,
                                          !.bstart = c.i,
                                          !.chunks = Append(@, [start |-> c.i, size |-> Len(b)])])
           ELSE [c EXCEPT !.pc = "returned",     \* index.js:195
                          !.result = [deleted |-> c.deletedCount, failed |-> c.failedCount]]
    [] c.pc = "forJ" ->         \* index.js:134-137
         IF c.j < Len(c.batch)
           THEN [c EXCEPT !.pc = "deleteTweet",
                          !.calls = Append(@, [idx |-> c.bstart + c.j,
                                               id |-> c.batch[c.j + 1],
                                               result |-> "pending", cur |-> TRUE])]
           ELSE CliContinue([c EXCEPT !.pc = "afterBatch"])
    [] c.pc = "retry" ->        \* index.js:171-173: j--; continue (then j++)
         CliContinue([c EXCEPT !.j = (@ - 1) + 1, !.pc = "forJ"])
    [] c.pc = "afterBatch" ->   \* index.js:184-186
         IF c.i + c.tweetsPerBatch < Len(c.tweets)
           THEN LET q == StartSleep([c EXCEPT !.batchDelays = @ + 1],
                                    c.batchDelayMinutes, "incr")
                IN  IF q.pc = "sleep" THEN q ELSE CliContinue(q)
           ELSE CliContinue([c EXCEPT !.pc = "incr"])
    [] c.pc = "incr" ->         \* index.js:119: i += this.tweetsPerBatch
         CliContinue([c EXCEPT !.i = @ + c.tweetsPerBatch, !.pc = "for"])
    [] OTHER -> c

CliIdle == cli = CliFrame("idle", <<>>, NullDeleter)

\* the page as loaded: no tweets, nothing selected, no poll loop
ClientIdle ==
  client = [loaded |-> FALSE, tweets |-> <<>>, selectedTweets |-> <<>>,
            deleteBtnDisabled |-> TRUE, polls |-> 0]

Init ==
  /\ env \in [TWEETS_PER_BATCH : 1..MaxB, BATCH_DELAY_MINUTES : 1..MaxBatchDelay]
  /\ WebIdle
  /\ CliIdle
  /\ ClientIdle
  /\ throttled = 0

\* ------------------------------------------------------- HTTP handlers
runVars == <<deleter, deletionInProgress, deletionStats, procs, savedLog>>
budget == <<runsStarted, itemsSubmitted, throttled>>

\* GET /api/status
StatusBody ==
  [initialized |-> ~deleter.isNull, deletionInProgress |-> deletionInProgress,
   stats |-> deletionStats]
GetStatus ==
  /\ response' = "status"
  /\ UNCHANGED <<env, runVars, initPending, budget, cli>>

\* GET /api/deletion-progress; Math.round of a non-negative quotient
Round(a, b) == (2 * a + b) \div (2 * b)
ProgressBody ==
  [inProgress |-> deletionInProgress, stats |-> deletionStats,
   progress |-> IF deletionStats.total > 0
                  THEN Round((deletionStats.deleted + deletionStats.failed) * 100,
                             deletionStats.total)
                  ELSE 0]
\* GET /api/deletion-progress that clears the stats of a finished run
GetDeletionProgressClearing ==
  /\ response' = "progress"
  /\ deletionStats' = IF deletionInProgress THEN deletionStats
                      ELSE [deleted |-> 0, failed |-> 0, total |-> 0]
  /\ UNCHANGED <<env, deleter, deletionInProgress, procs, savedLog, initPending,
                 budget, cli>>
GetDeletionProgress ==
  /\ response' = "progress"
  /\ UNCHANGED <<env, runVars, initPending, budget, cli>>

\* POST /api/initialize up to the await in initializeDeleter: the deleter is
\* replaced before the credentials are validated
PostInitialize ==
  /\ initPending < MaxPendingInit
  /\ deleter' = NewTweetDeleter(env)
  /\ initPending' = initPending + 1
  /\ procs' = [n \in DOMAIN procs |->
                 IF procs[n].pc \in {"writeFile", "done"} THEN procs[n]
                 ELSE [procs[n] EXCEPT
                         !.carried = <<>>,
                         !.calls = [c \in DOMAIN @ |-> [@[c] EXCEPT !.cur = FALSE]]]]
  /\ response' = "none"
  /\ UNCHANGED <<env, deletionInProgress, deletionStats, savedLog, budget, cli>>

\* validateCredentials returns; the rest of initializeDeleter and the response
ValidateCredentialsReturns(isValid) ==
  /\ initPending > 0
  /\ initPending' = initPending - 1
  /\ response' = IF isValid THEN "InitOk" ELSE "InitFailed"
  /\ UNCHANGED <<env, runVars, budget, cli>>

\* the checks of POST /api/delete-tweets (part_000:65-76): the error it
\* answers with, or "none" when the request is accepted
RejectionNoBodyCheck(body) ==
  IF deleter.isNull THEN "NotInitialized"
  ELSE IF deletionInProgress THEN "AlreadyInProgress"
  ELSE "none"
RejectionNoProgressCheck(body) ==
  IF deleter.isNull THEN "NotInitialized"
  ELSE IF body.kind # "array" \/ Len(body.ids) = 0 THEN "NoTweetIds"
  ELSE "none"
RejectionBodyFirst(body) ==
  IF deleter.isNull THEN "NotInitialized"
  ELSE IF body.kind # "array" \/ Len(body.ids) = 0 THEN "NoTweetIds"
  ELSE IF deletionInProgress THEN "AlreadyInProgress"
  ELSE "none"
Rejection(body) ==
  IF deleter.isNull THEN "NotInitialized"
  ELSE IF deletionInProgress THEN "AlreadyInProgress"
  ELSE IF body.kind # "array" \/ Len(body.ids) = 0 THEN "NoTweetIds"
  ELSE "none"

\* POST /api/delete-tweets, with processDeletion up to its first await
PostDeleteTweets(body) ==
  IF Rejection(body) # "none"
    THEN /\ response' = Rejection(body)
         /\ UNCHANGED <<env, runVars, initPending, budget, cli>>
  ELSE /\ runsStarted < MaxRuns
       /\ itemsSubmitted + Len(body.ids) <= MaxItems
       /\ runsStarted' = runsStarted + 1
       /\ itemsSubmitted' = itemsSubmitted + Len(body.ids)
       /\ deletionInProgress' = TRUE
       /\ deletionStats' = [deleted |-> 0, failed |-> 0, total |-> Len(body.ids)]
       /\ response' = "DeletionStarted"
       /\ procs' = Append(Live(procs), Continue(NewProc(body.ids, deleter), deleter))
       /\ UNCHANGED <<env, deleter, savedLog, initPending, throttled, cli>>

\* --------------------------------------------- processDeletion resumes
\* await deleter.deleteTweet(tweet.id) settles (part_000:113-148)
AwaitDeleteTweet(n, remote, reset, nowMs) ==
  LET p == procs[n]
      r == deleteTweet(remote)
  IN
  /\ p.pc = "deleteTweet"
  /\ r.thrown => throttled < MaxThrottles
  /\ throttled' = IF r.thrown THEN throttled + 1 ELSE throttled
  /\ deletionStats' = RecordOutcome(deletionStats, r)
  /\ deleter' = [deleter EXCEPT !.deletedTweets = PushDeleted(@, r, p.batch[p.k])]
  /\ IF ~r.thrown
       THEN procs' = [procs EXCEPT ![n] =
                 [p EXCEPT !.pc = "itemDelay", !.lastWait = NoWait,
                           !.calls = SetLastResult(@, IF r.success THEN "deleted"
                                                      ELSE "failed")]]
     ELSE LET w == ThrottleWait(reset, nowMs, WebBufferMinutes, WebFallbackMinutes)
              q == StartSleep([p EXCEPT
                     !.lastWait = [set |-> TRUE, reset |-> reset, nowMs |-> nowMs, ticks |-> 0],
                     !.calls = SetLastResult(@, "throttled")], w, "retry")
          IN  procs' = [procs EXCEPT ![n] =
                     IF q.pc = "sleep" THEN q ELSE Continue(q, deleter)]
  /\ response' = "none"
  /\ UNCHANGED <<env, deletionInProgress, savedLog, initPending, runsStarted,
                 itemsSubmitted, cli>>

\* the one-second timer between deletions fires (part_000:129)
ItemDelayElapsed(n) ==
  LET p == procs[n] IN
  /\ p.pc = "itemDelay"
  /\ procs' = [procs EXCEPT ![n] =
                 Continue([p EXCEPT !.k = @ + 1, !.pc = "forOf"], deleter)]
  /\ response' = "none"
  /\ UNCHANGED <<env, deleter, deletionInProgress, deletionStats, savedLog,
                 initPending, budget, cli>>

\* SleepTick waking the run at the first timer, whatever is left to sleep
SleepTickWakesEarly(n) ==
  LET p == procs[n] IN
  /\ p.pc = "sleep"
  /\ procs' = [procs EXCEPT ![n] = Continue([p EXCEPT !.left = 0, !.pc = p.after], deleter)]
  /\ response' = "none"
  /\ UNCHANGED <<env, deleter, deletionInProgress, deletionStats, savedLog,
                 initPending, budget, cli>>
\* one one-minute timer of TweetDeleter.sleep fires (index.js:91-94)
SleepTick(n) ==
  LET p == procs[n]
      q == [p EXCEPT !.left = @ - 1,
                     !.lastWait.ticks = IF p.after = "retry" THEN @ + 1 ELSE @]
  IN
  /\ p.pc = "sleep"
  /\ procs' = [procs EXCEPT ![n] =
                 IF q.left > 0 THEN q ELSE Continue([q EXCEPT !.pc = p.after], deleter)]
  /\ response' = "none"
  /\ UNCHANGED <<env, deleter, deletionInProgress, deletionStats, savedLog,
                 initPending, budget, cli>>

\* WriteFileReturns without the finally block: a rejected write leaves the flag set
WriteFileReturnsNoFinally(n, ok) ==
  LET p == procs[n] IN
  /\ p.pc = "writeFile"
  /\ savedLog' = IF ok THEN p.json ELSE savedLog
  /\ deletionInProgress' = ~ok
  /\ procs' = [procs EXCEPT ![n] =
                 [p EXCEPT !.pc = "done", !.flush = IF ok THEN "ok" ELSE "failed"]]
  /\ response' = "none"
  /\ UNCHANGED <<env, deleter, deletionStats, initPending, budget, cli>>
\* fs.writeFile of saveDeletionLog settles; catch and finally of processDeletion
WriteFileReturns(n, ok) ==
  LET p == procs[n] IN
  /\ p.pc = "writeFile"
  /\ savedLog' = IF ok THEN p.json ELSE savedLog
  /\ deletionInProgress' = FALSE
  /\ procs' = [procs EXCEPT ![n] =
                 [p EXCEPT !.pc = "done", !.flush = IF ok THEN "ok" ELSE "failed"]]
  /\ response' = "none"
  /\ UNCHANGED <<env, deleter, deletionStats, initPending, budget, cli>>

\* ------------------------------------------------------------ CLI steps
\* main(): new TweetDeleter(), then deleteTweetsInBatches(tweets) up to its
\* first await (index.js:223, 262, 112-137)
CliStart(tweets) ==
  /\ cli.pc = "idle"
  /\ cli' = CliContinue(CliFrame("for", tweets, NewTweetDeleter(env)))
  /\ UNCHANGED <<env, runVars, response, initPending, budget>>

\* await this.deleteTweet(tweet.id) settles (index.js:137-178)
CliAwaitDeleteTweet(remote, reset, nowMs) ==
  LET r == deleteTweet(remote) IN
  /\ cli.pc = "deleteTweet"
  /\ r.thrown => throttled < MaxThrottles
  /\ throttled' = IF r.thrown THEN throttled + 1 ELSE throttled
  /\ IF ~r.thrown
       THEN cli' = [cli EXCEPT !.pc = "itemDelay", !.lastWait = NoWait,
                               !.deletedCount = IF r.success THEN @ + 1 ELSE @,
                               !.failedCount = IF r.success THEN @ ELSE @ + 1,
                               !.deletedTweets = IF r.success
                                                   THEN Append(@, cli.batch[cli.j + 1])
                                                   ELSE @,
                               !.calls = SetLastResult(@, IF r.success THEN "deleted"
                                                          ELSE "failed")]
     ELSE LET w == ThrottleWait(reset, nowMs, CliBufferMinutes, CliFallbackMinutes)
              q == StartSleep([cli EXCEPT
                     !.lastWait = [set |-> TRUE, reset |-> reset, nowMs |-> nowMs, ticks |-> 0],
                     !.calls = SetLastResult(@, "throttled")], w, "retry")
          IN  cli' = IF q.pc = "sleep" THEN q ELSE CliContinue(q)
  /\ UNCHANGED <<env, runVars, response, initPending, runsStarted, itemsSubmitted>>

\* the five-minute timer between deletions fires (index.js:154)
CliItemDelayElapsed ==
  /\ cli.pc = "itemDelay"
  /\ cli' = CliContinue([cli EXCEPT !.j = @ + 1, !.pc = "forJ"])
  /\ UNCHANGED <<env, runVars, response, initPending, budget>>

\* CliSleepTick resuming after a throttle wait without the j-- of the retry
CliSleepTickNoRewind ==
  LET q == [cli EXCEPT !.left = @ - 1,
                       !.lastWait.ticks = IF cli.after = "retry" THEN @ + 1 ELSE @]
  IN
  /\ cli.pc = "sleep"
  /\ cli' = IF q.left > 0 THEN q
            ELSE IF cli.after = "retry"
              THEN CliContinue([q EXCEPT !.j = @ + 1, !.pc = "forJ"])
            ELSE CliContinue([q EXCEPT !.pc = cli.after])
  /\ UNCHANGED <<env, runVars, response, initPending, budget>>
\* one one-minute timer of TweetDeleter.sleep fires (index.js:91-94)
CliSleepTick ==
  LET q == [cli EXCEPT !.left = @ - 1,
                       !.lastWait.ticks = IF cli.after = "retry" THEN @ + 1 ELSE @]
  IN
  /\ cli.pc = "sleep"
  /\ cli' = IF q.left > 0 THEN q ELSE CliContinue([q EXCEPT !.pc = cli.after])
  /\ UNCHANGED <<env, runVars, response, initPending, budget>>

NextCli ==
  \/ \E tweets \in IdLists : CliStart(tweets) /\ UNCHANGED client
  \/ \E remote \in RemoteResults, reset \in CliResetSamples \cup {NoReset},
        nowMs \in NowSamples :
          CliAwaitDeleteTweet(remote, reset, nowMs) /\ UNCHANGED client
  \/ CliItemDelayElapsed /\ UNCHANGED client
  \/ CliSleepTick /\ UNCHANGED client

SpecCli == Init /\ [][NextCli]_vars

\* the resume steps of processDeletion, the page untouched
RunAwaitDeleteTweet ==
  \E n \in DOMAIN procs, remote \in RemoteResults,
     reset \in ResetSamples \cup {NoReset}, nowMs \in NowSamples :
       AwaitDeleteTweet(n, remote, reset, nowMs) /\ UNCHANGED client
RunItemDelayElapsed == \E n \in DOMAIN procs : ItemDelayElapsed(n) /\ UNCHANGED client
RunSleepTick == \E n \in DOMAIN procs : SleepTick(n) /\ UNCHANGED client
RunWriteFileReturns ==
  \E n \in DOMAIN procs, ok \in BOOLEAN : WriteFileReturns(n, ok) /\ UNCHANGED client

Next ==
  \/ GetStatus /\ UNCHANGED client
  \/ GetDeletionProgress /\ UNCHANGED client
  \/ PostInitialize /\ UNCHANGED client
  \/ \E isValid \in BOOLEAN : ValidateCredentialsReturns(isValid) /\ UNCHANGED client
  \/ \E body \in Bodies : PostDeleteTweets(body) /\ UNCHANGED client
  \/ RunAwaitDeleteTweet
  \/ RunItemDelayElapsed
  \/ RunSleepTick
  \/ RunWriteFileReturns

Spec == Init /\ [][Next]_vars

\* the web server with every pending delete call, timer and file write
\* eventually settling; the remote gives at most MaxThrottles 429 responses
SpecFair ==
  /\ Init /\ [][Next]_vars
  /\ WF_vars(RunAwaitDeleteTweet)
  /\ WF_vars(RunItemDelayElapsed)
  /\ WF_vars(RunSleepTick)
  /\ WF_vars(RunWriteFileReturns)

\* either program of the repository: the web server, or the CLI
NextAll ==
  \/ CliIdle /\ Next
  \/ WebIdle /\ NextCli

SpecAll == Init /\ [][NextAll]_vars

\* ------------------------------------------------- browser page, part_001
\* selectedTweets is a Set: kept as the sequence of its ids in insertion
\* order, the order Array.from(selectedTweets) gives
InSeq(x, s) == \E k \in DOMAIN s : s[k] = x
Without(s, x) == SelectSeq(s, LAMBDA y : y # x)
serverVars == <<env, runVars, initPending, budget, cli>>

\* loadTweets gets result.tweets and renders them (part_001:32-59); the
\* server answers with tweets only when the deleter is set (part_000:52-57)
loadTweets(list) ==
  /\ ~client.loaded
  /\ ~deleter.isNull
  /\ client' = [client EXCEPT !.loaded = TRUE, !.tweets = list,
                              !.deleteBtnDisabled = Len(client.selectedTweets) = 0]
  /\ response' = "tweets"
  /\ UNCHANGED serverVars

\* a click on a rendered tweet (part_001:90-97, 125-129)
toggleTweet(tweetId) ==
  LET sel == IF InSeq(tweetId, client.selectedTweets)
               THEN Without(client.selectedTweets, tweetId)
               ELSE Append(client.selectedTweets, tweetId)
  IN
  /\ InSeq(tweetId, client.tweets)
  /\ client' = [client EXCEPT !.selectedTweets = sel, !.deleteBtnDisabled = Len(sel) = 0]
  /\ UNCHANGED <<serverVars, response>>

\* tweets.filter(tweet => !selectedTweets.has(tweet.id)) (part_001:192)
RemoveSelected(tweets, selected) ==
  SelectSeq(tweets, LAMBDA id : ~InSeq(id, selected))

\* a click on the enabled delete button, confirmed: deleteSelected with the
\* server's handling of its POST (part_001:132-166); a poll loop starts
\* when the answer has a message
deleteSelected ==
  /\ ~client.deleteBtnDisabled
  /\ Len(client.selectedTweets) # 0
  /\ PostDeleteTweets([kind |-> "array", ids |-> client.selectedTweets])
  /\ response' = "DeletionStarted" => client.polls < MaxPolls
  /\ client' = IF response' = "DeletionStarted"
                 THEN [client EXCEPT !.deleteBtnDisabled = TRUE, !.polls = @ + 1]
                 ELSE [client EXCEPT !.deleteBtnDisabled = FALSE]

\* one round of pollDeletionProgress with the server's handling of its GET
\* (part_001:169-203): the loop goes on while inProgress, else it ends
pollDeletionProgress ==
  /\ client.polls > 0
  /\ GetDeletionProgress
  /\ client' = IF ProgressBody.inProgress THEN client
               ELSE [client EXCEPT
                       !.tweets = RemoveSelected(@, client.selectedTweets),
                       !.selectedTweets = <<>>,
                       !.deleteBtnDisabled = FALSE,
                       !.polls = @ - 1]

\* the page of one browser against the server
NextClient ==
  \/ PostInitialize /\ UNCHANGED client
  \/ \E isValid \in BOOLEAN : ValidateCredentialsReturns(isValid) /\ UNCHANGED client
  \/ \E list \in IdLists : loadTweets(list)
  \/ \E tweetId \in 1..MaxN : toggleTweet(tweetId)
  \/ deleteSelected
  \/ pollDeletionProgress
  \/ RunAwaitDeleteTweet
  \/ RunItemDelayElapsed
  \/ RunSleepTick
  \/ RunWriteFileReturns

SpecClient == Init /\ [][NextClient]_vars

\* ================================================================ claims
Terminal(c) == c.result \in {"deleted", "failed"}
IdsOf(calls) == [k \in DOMAIN calls |-> calls[k].id]
TerminalIds(calls) == IdsOf(SelectSeq(calls, Terminal))
DeletedIds(calls) ==
  IdsOf(SelectSeq(calls, LAMBDA c : c.result = "deleted" /\ c.cur))
Finished(p) == p.pc = "done"
PostDeleteResponses ==
  {"NotInitialized", "AlreadyInProgress", "NoTweetIds", "DeletionStarted"}

\* C1: in processDeletion, after a deleteTweet call for item x ends with a
\* 429, the next deleteTweet call of the run is for the same item x, and the
\* run does not go on to save the log without that call.
C1_ThrottledItemIsRetried ==
  \A n \in DOMAIN procs :
    LET c == procs[n].calls IN
    \A k \in DOMAIN c :
      c[k].result = "throttled" =>
        IF k < Len(c) THEN c[k + 1].idx = c[k].idx
        ELSE procs[n].pc \notin {"writeFile", "done"}

\* C2: each submitted item contributes exactly one increment, so when a
\* run has completed deleted + failed = total, whatever was throttled.
C2_EveryItemCountedOnce ==
  \A n \in DOMAIN procs :
    Finished(procs[n]) =>
      deletionStats.deleted + deletionStats.failed = deletionStats.total

\* C3: deleted + failed <= total in every reachable state of the server.
C3_DeletedPlusFailedWithinTotal ==
  deletionStats.deleted + deletionStats.failed <= deletionStats.total

\* C3 witness: a run that was throttled has counted all of its items and is
\* still in progress.
C3_Witness ==
  /\ deletionInProgress
  /\ deletionStats.deleted + deletionStats.failed = deletionStats.total
  /\ \E n \in DOMAIN procs : \E k \in DOMAIN procs[n].calls :
       procs[n].calls[k].result = "throttled"

\* C4: never two processDeletion executions in progress, never more than
\* one deleteTweet call outstanding.
C4_AtMostOneRun ==
  /\ Len(Live(procs)) <= 1
  /\ Cardinality({n \in DOMAIN procs : procs[n].pc = "deleteTweet"}) <= 1

\* C4 witness: a POST /api/delete-tweets was handled while the run had a
\* deleteTweet call outstanding.
C4_Witness ==
  /\ response = "AlreadyInProgress"
  /\ \E n \in DOMAIN procs : procs[n].pc = "deleteTweet"

\* C5: a POST /api/delete-tweets handled while deletionInProgress is true
\* is answered 'Deletion already in progress' and leaves the deleter, the
\* flag, the stats, the run (its cursor included) and the log file as they were.
C5_RejectedPostChangesNothing ==
  [][(response' \in PostDeleteResponses /\ deletionInProgress) =>
       (/\ response' = "AlreadyInProgress"
        /\ UNCHANGED <<deleter, deletionInProgress, deletionStats, procs, savedLog>>)]_vars

\* C5 witness: the rejected POST came while the run, with items already
\* counted, was suspended in a sleep.
C5_Witness ==
  /\ response = "AlreadyInProgress"
  /\ deletionInProgress
  /\ deletionStats.deleted + deletionStats.failed > 0
  /\ \E n \in DOMAIN procs : procs[n].pc = "sleep"

\* C6: an item whose call ended in a terminal outcome is never passed to
\* deleteTweet again in the run, and the next call is for the next item.
C6_NoSecondAttemptAfterTerminal ==
  \A n \in DOMAIN procs :
    LET c == procs[n].calls IN
    \A k \in DOMAIN c :
      Terminal(c[k]) =>
        /\ \A m \in (k + 1)..Len(c) : c[m].idx # c[k].idx
        /\ k < Len(c) => c[k + 1].idx = c[k].idx + 1

SleptFor(f) ==
  f.lastWait.ticks + (IF f.pc = "sleep" /\ f.after = "retry" THEN f.left ELSE 0)
\* w minutes is the least whole number of minutes reaching the reset, plus
\* buffer; a wait that is not positive sleeps nothing
WaitAsClaimed(f, buffer, fallback) ==
  f.lastWait.set =>
    LET msToReset == f.lastWait.reset * 1000 - f.lastWait.nowMs
        w == SleptFor(f) - buffer
    IN  IF f.lastWait.reset = NoReset THEN SleptFor(f) = fallback
        ELSE IF SleptFor(f) > 0
          THEN w * 60000 >= msToReset /\ (w - 1) * 60000 < msToReset
          ELSE (0 - buffer) * 60000 >= msToReset

\* C8: a 429 with a reset time suspends for ceil((reset - now) / 60) + 1
\* minutes in processDeletion (fallback 15) and + 5 minutes in
\* deleteTweetsInBatches (fallback 1440); a wait <= 0 suspends for nothing.
C8_ThrottleWaitMinutes ==
  /\ \A n \in DOMAIN procs : WaitAsClaimed(procs[n], 1, 15)
  /\ WaitAsClaimed(cli, 5, 1440)

\* C8 witness: 600 seconds to the reset, and processDeletion slept 11 minutes.
C8_Witness ==
  \E n \in DOMAIN procs :
    /\ procs[n].lastWait =
         [set |-> TRUE, reset |-> 1600, nowMs |-> 1000000, ticks |-> 11]
    /\ procs[n].pc = "deleteTweet"

\* d inter-batch delays are ceil(N / B) - 1 of them
DelaysAsClaimed(d, N, B) == (d + 1) * B >= N /\ d * B < N

\* C9: a completed run over N items with batch size B has performed
\* exactly ceil(N / B) - 1 inter-batch delays, in both schedulers.
C9_InterBatchDelays ==
  /\ \A n \in DOMAIN procs :
       Finished(procs[n]) =>
         DelaysAsClaimed(procs[n].batchDelays, Len(procs[n].tweets), env.TWEETS_PER_BATCH)
  /\ cli.pc = "returned" =>
       DelaysAsClaimed(cli.batchDelays, Len(cli.tweets), env.TWEETS_PER_BATCH)

\* the chunks sliced so far are the first chunks of the partition of 0..N-1
\* into blocks of B; done: they are all of it
ChunksAsClaimed(chunks, N, B, done) ==
  /\ \A c \in DOMAIN chunks :
       /\ chunks[c].start = (c - 1) * B
       /\ chunks[c].size = Min(B, N - (c - 1) * B)
       /\ chunks[c].size >= 1
  /\ done => Len(chunks) * B >= N /\ (Len(chunks) - 1) * B < N

\* C10: both schedulers split the N items into contiguous, disjoint chunks
\* of B items (the last one N mod B, or B), ceil(N / B) chunks in all.
C10_Partition ==
  /\ \A n \in DOMAIN procs :
       ChunksAsClaimed(procs[n].chunks, Len(procs[n].tweets), env.TWEETS_PER_BATCH,
                       Finished(procs[n]))
  /\ ChunksAsClaimed(cli.chunks, Len(cli.tweets), env.TWEETS_PER_BATCH,
                     cli.pc = "returned")

\* the calls of one scheduler frame follow the input order: an item past the
\* first is first attempted only after the item before it reached a terminal
\* outcome, and the terminal outcomes come in strictly increasing position
InSubmittedOrder(calls) ==
  /\ \A m \in DOMAIN calls :
       calls[m].idx > 0 =>
         \E k \in 1..(m - 1) : calls[k].idx = calls[m].idx - 1 /\ Terminal(calls[k])
  /\ \A k, m \in DOMAIN calls :
       (k < m /\ Terminal(calls[k]) /\ Terminal(calls[m])) => calls[k].idx < calls[m].idx

\* C11: in every run of either scheduler the items are processed strictly in
\* the submitted order: item k reaches its terminal outcome before item
\* k+1 is first attempted, and terminal outcomes follow the input list.
C11_InSubmittedOrder ==
  /\ \A n \in DOMAIN procs : InSubmittedOrder(procs[n].calls)
  /\ InSubmittedOrder(cli.calls)

\* positions of the items of a frame that have a call with a Failed outcome
FailedItems(calls) == {calls[k].idx : k \in {m \in DOMAIN calls : calls[m].result = "failed"}}

\* C12: a non-throttling failure of one item never aborts the run: the item
\* is counted in failed exactly once, it is never passed to deleteTweet
\* again, and when the run has finished every later item has been attempted.
C12_FailureIsTerminalOnce ==
  \A n \in DOMAIN procs :
    LET c == procs[n].calls IN
    /\ deletionStats.failed = Cardinality(FailedItems(c))
    /\ \A k \in DOMAIN c :
         c[k].result = "failed" =>
           /\ \A m \in (k + 1)..Len(c) : c[m].idx # c[k].idx
           /\ Finished(procs[n]) =>
                \A j \in (c[k].idx + 1)..(Len(procs[n].tweets) - 1) :
                  \E m \in DOMAIN c : c[m].idx = j

\* req.body.tweetIds is missing, not an array, or an empty array
NoIds(body) == body.kind # "array" \/ Len(body.ids) = 0

\* C13: a POST /api/delete-tweets whose tweetIds is missing, not an array or
\* empty is rejected and creates no run state: the deleter, the flag, the
\* stats, the runs and the log file are unchanged; once the deleter is set
\* and no run is in progress the answer is 'No tweet IDs provided' and the
\* flag stays false.
C13_NoIdsRejectedBeforeRunState ==
  [][\A body \in Bodies :
       (response' \in PostDeleteResponses /\ NoIds(body) /\ PostDeleteTweets(body)) =>
         /\ response' \in {"NotInitialized", "AlreadyInProgress", "NoTweetIds"}
         /\ UNCHANGED <<deleter, deletionInProgress, deletionStats, procs, savedLog>>
         /\ (~deleter.isNull /\ ~deletionInProgress) =>
              (response' = "NoTweetIds" /\ ~deletionInProgress')]_vars

\* C13 witness: 'No tweet IDs provided' was answered after a run had
\* finished, with that run's stats still in place.
C13_Witness ==
  /\ response = "NoTweetIds"
  /\ ~deletionInProgress
  /\ deletionStats.total > 0
  /\ \E n \in DOMAIN procs : Finished(procs[n])

\* one step of a scheduler frame, from f to g, suspends as claimed:
\*  - a deleteTweet call that settles with a terminal outcome leaves the frame
\*    in the inter-item delay, with no new call issued;
\*  - a frame suspended in a sleep with more than one timer left, or suspended
\*    before and after the step, issues no call;
\*  - a new call is issued only by the step that ends a suspension, or by a
\*    429 whose wait is zero minutes
Suspended(f) == f.pc \in {"itemDelay", "sleep"}
SuspendsAsClaimed(f, g) ==
  /\ (f.pc = "deleteTweet" /\ Len(g.calls) >= Len(f.calls)
        /\ Terminal(g.calls[Len(f.calls)])) =>
       (g.pc = "itemDelay" /\ g.calls = SetLastResult(f.calls, g.calls[Len(f.calls)].result))
  /\ (f.pc \notin {"idle", "done"} /\ Len(g.calls) > Len(f.calls)) =>
       \/ f.pc = "itemDelay" /\ Terminal(f.calls[Len(f.calls)])
       \/ f.pc = "sleep" /\ f.left = 1
       \/ f.pc = "deleteTweet" /\ g.calls[Len(f.calls)].result = "throttled"
            /\ SleptFor(g) = 0
  /\ (Suspended(f) /\ Suspended(g)) => Len(g.calls) = Len(f.calls)

\* C14: after every terminal attempt the scheduler is suspended in the
\* inter-item delay before the next deleteTweet call, and no deleteTweet
\* call is issued while a run is suspended in an inter-item delay, an
\* inter-batch delay or a throttle wait; in both schedulers.
C14_SuspendsBetweenCalls ==
  [][/\ \A n \in DOMAIN procs \cap DOMAIN procs' : SuspendsAsClaimed(procs[n], procs'[n])
     /\ SuspendsAsClaimed(cli, cli')]_vars

\* C14 witness: after a terminal attempt and its inter-item delay the web
\* run is suspended in the inter-batch delay, a request having been
\* answered meanwhile.
C14_Witness ==
  \E n \in DOMAIN procs :
    /\ procs[n].pc = "sleep" /\ procs[n].after = "incr"
    /\ Len(procs[n].calls) = 1 /\ Terminal(procs[n].calls[1])
    /\ response = "progress"

\* p is x = 100 * num / den rounded to the nearest integer, halves upwards
IsRounded(p, num, den) ==
  /\ 2 * den * p - den <= 200 * num
  /\ 200 * num < 2 * den * p + den

\* the progress value is the rounded percentage, 0 with no total, within 0..100
ProgressIsRoundedPercent ==
  /\ IF deletionStats.total > 0
       THEN IsRounded(ProgressBody.progress,
                      deletionStats.deleted + deletionStats.failed, deletionStats.total)
       ELSE ProgressBody.progress = 0
  /\ ProgressBody.progress \in 0..100

\* C15: /api/deletion-progress returns round(100 * (deleted + failed) / total)
\* when total > 0 and 0 when total = 0, always within 0..100, and it is 100
\* whenever a run has completed.
C15_ProgressAsClaimed ==
  /\ ProgressIsRoundedPercent
  /\ \A n \in DOMAIN procs : Finished(procs[n]) => ProgressBody.progress = 100

\* C16: GET /api/status and GET /api/deletion-progress leave the deleter,
\* deletionInProgress, deletionStats, the runs and the log file unchanged,
\* so a read that directly follows a read of the same kind returns the
\* same snapshot.
C16_ReadsChangeNothing ==
  [][/\ response' \in {"status", "progress"} =>
          UNCHANGED <<deleter, deletionInProgress, deletionStats, procs, savedLog>>
     /\ (response \in {"status", "progress"} /\ response' \in {"status", "progress"}) =>
          (StatusBody' = StatusBody /\ ProgressBody' = ProgressBody)]_vars

\* C16 witness: progress was read while a run with counted items was going on.
C16_Witness ==
  /\ response = "progress"
  /\ deletionInProgress
  /\ deletionStats.deleted + deletionStats.failed > 0

\* C17: with finitely many 429 responses and every call and timer
\* eventually returning, every accepted run eventually ends with
\* deletionInProgress false; the step that ends the run resets the flag
\* also when the log write fails, and then a POST with tweet ids passes
\* every check of the handler again.
C17_RunEndsAndFlagIsReset ==
  /\ deletionInProgress ~>
       (~deletionInProgress /\ \A n \in DOMAIN procs : Finished(procs[n]))
  /\ [][\A n \in DOMAIN procs \cap DOMAIN procs' :
          (procs[n].pc = "writeFile" /\ procs'[n].pc = "done") =>
            /\ ~deletionInProgress'
            /\ \A l \in IdLists : Rejection([kind |-> "array", ids |-> l])' = "none"]_vars

\* C17 witness: a run that was throttled has ended with a failed log write
\* and the flag is false.
C17_Witness ==
  /\ ~deletionInProgress
  /\ \E n \in DOMAIN procs :
       /\ Finished(procs[n]) /\ procs[n].flush = "failed"
       /\ \E k \in DOMAIN procs[n].calls : procs[n].calls[k].result = "throttled"

CountCalls(calls, r) == Cardinality({k \in DOMAIN calls : calls[k].result = r})
DeletedItems(calls) == {calls[k].id : k \in {m \in DOMAIN calls : calls[m].result = "deleted"}}

\* C18: in deleteTweetsInBatches a 429 for item x counts as nothing and the
\* next deleteTweet call is for x again; when the function returns,
\* deleted + failed = tweets.length and deletedTweets holds exactly the
\* `deleted` items this call deleted, in input order.
C18_CliRetriesAndCountsAll ==
  LET c == cli.calls IN
  /\ \A k \in DOMAIN c :
       c[k].result = "throttled" =>
         IF k < Len(c) THEN c[k + 1].idx = c[k].idx
         ELSE cli.pc = "sleep" /\ cli.after = "retry"
  /\ cli.deletedCount = CountCalls(c, "deleted")
  /\ cli.failedCount = CountCalls(c, "failed")
  /\ cli.pc = "returned" =>
       /\ cli.result.deleted + cli.result.failed = Len(cli.tweets)
       /\ Len(cli.deletedTweets) = cli.result.deleted
       /\ cli.deletedTweets = SelectSeq(cli.tweets, LAMBDA id : id \in DeletedItems(c))

\* C18 witness: the call returned after a 429 on the first of two items,
\* one deleted and one failed.
C18_Witness ==
  /\ cli.pc = "returned"
  /\ Len(cli.tweets) = 2
  /\ cli.calls[1].result = "throttled"
  /\ cli.result = [deleted |-> 1, failed |-> 1]

\* C19: before any initialize (the deleter is still null) and after an
\* initialize whose credential validation failed, /api/status reports
\* initialized = false and every POST /api/delete-tweets is rejected with
\* 'Not initialized', so no run is accepted.
C19_NoRunWithoutValidatedInit ==
  (deleter.isNull \/ response = "InitFailed") =>
    /\ StatusBody.initialized = FALSE
    /\ \A body \in Bodies : Rejection(body) = "NotInitialized"

\* C20: deletionInProgress is true in every state in which a run has been
\* accepted and its processDeletion has not finished, suspend points
\* included; deletionStats changes only in steps that leave the flag true
\* (the accepting POST sets the flag first); while the flag stays true,
\* total does not change and deleted and failed never decrease and grow by
\* at most 1 in all per step.
C20_FlagCoversRunAndStats ==
  /\ [](\A n \in DOMAIN procs : ~Finished(procs[n]) => deletionInProgress)
  /\ [][/\ deletionStats' # deletionStats =>
             (deletionInProgress' /\ (deletionInProgress \/ response' = "DeletionStarted"))
        /\ (deletionInProgress /\ response' # "DeletionStarted") =>
             /\ deletionStats'.total = deletionStats.total
             /\ deletionStats'.deleted - deletionStats.deleted \in {0, 1}
             /\ deletionStats'.failed - deletionStats.failed \in {0, 1}
             /\ (deletionStats'.deleted + deletionStats'.failed)
                  - (deletionStats.deleted + deletionStats.failed) \in {0, 1}]_vars

\* C20 witness: the flag is true while the run, having counted one deleted
\* item, is suspended in a throttle wait.
C20_Witness ==
  /\ deletionInProgress
  /\ deletionStats.deleted = 1
  /\ \E n \in DOMAIN procs : procs[n].pc = "sleep" /\ procs[n].after = "retry"

\* every id the run deleted, in the order deleted, whichever deleter was in use
AllDeletedIds(calls) == IdsOf(SelectSeq(calls, LAMBDA c : c.result = "deleted"))
\* no POST /api/initialize came between the first settled call of the run and its flush
NoInitializeSince(p) == \A k \in DOMAIN p.calls : p.calls[k].cur

\* C21: the log flushed at the end of a run that no initialize interrupted
\* contains exactly the items deleted in that run: as many entries as that
\* run's deletionStats.deleted and none from an earlier run on the deleter.
C21_LogHoldsThisRunOnly ==
  \A n \in DOMAIN procs :
    (Finished(procs[n]) /\ procs[n].flush = "ok" /\ NoInitializeSince(procs[n])) =>
      /\ Len(savedLog) = deletionStats.deleted
      /\ savedLog = AllDeletedIds(procs[n].calls)

\* C22: a POST /api/initialize handled while a run is active does not
\* disturb the run: the deleter the run reads keeps the batch configuration
\* of the environment, and every item the run deleted, before or after the
\* initialize, is in the log flushed when the run completes.
C22_InitializeKeepsRunLog ==
  /\ deletionInProgress =>
       /\ deleter.tweetsPerBatch = env.TWEETS_PER_BATCH
       /\ deleter.batchDelayMinutes = env.BATCH_DELAY_MINUTES
  /\ \A n \in DOMAIN procs :
       (Finished(procs[n]) /\ procs[n].flush = "ok") =>
         \A k \in DOMAIN procs[n].calls :
           procs[n].calls[k].result = "deleted" =>
             \E j \in DOMAIN savedLog : savedLog[j] = procs[n].calls[k].id

\* the ids the run held by the server deleted
RunDeleted == UNION {DeletedItems(procs[n].calls) : n \in DOMAIN procs}

\* C23: when pollDeletionProgress observes inProgress = false it stops
\* polling and removes from the displayed list exactly the tweets the run
\* deleted; a tweet whose deletion failed stays displayed.
C23_OnlyDeletedTweetsRemoved ==
  [][client'.polls < client.polls =>
       client'.tweets = SelectSeq(client.tweets, LAMBDA id : id \notin RunDeleted)]_vars

====
